---------------------------- MODULE Spec2Model ----------------------------
(***************************************************************************)
(* Model of goraphql_mock_server: the registry of mocked requests and the  *)
(* request handler (server.go), the variable matchers, the response        *)
(* envelope, and the sample VariableDecoder of the test-suite              *)
(* (mocked_request_test.go).                                               *)
(*                                                                         *)
(* Texts (queries, identifiers) are sequences of one-character strings, so *)
(* that TrimSpace, HasPrefix and Contains are computed and not assumed.    *)
(* Go values are records tagged with their dynamic type ("t"); a scalar    *)
(* carries its value as text ("v"), a map carries whether it is nil and    *)
(* its content.                                                            *)
(***************************************************************************)
EXTENDS Integers, Sequences, FiniteSets, TLC

VARIABLES
    queries,    \* server.queries: identifier -> sequence of MockedRequest
    calls,      \* history: the RegisterQuery calls made so far, in call order
    last,       \* history: what the most recent run of server.handler did
    mock,       \* matcher check: the MockedRequest under test
    reqVar,     \* matcher check: the incoming variable map
    cmp,        \* matcher check: the outcome of CompareVariables
    running     \* concurrent handlers: each one's request and position

vars == <<queries, calls, last, mock, reqVar, cmp, running>>

(***************************************************************************)
(* Bounds of the model.                                                    *)
(***************************************************************************)
\* Longest key list given to KeyOnlyVariables.
MaxKeyList == 3
\* Most RegisterQuery calls made on one server.
MaxRegs == 3

(***************************************************************************)
(* Go values.                                                              *)
(***************************************************************************)
GoVal(t, v) == [t |-> t, v |-> v]

\* Scalars that a variable may hold: strings, an int, a float64.
ScalarValues ==
    { GoVal("string", "str"), GoVal("string", "1"),
      GoVal("int", "1"), GoVal("float64", "1"), GoVal("int", "0") }

\* map[string]any: nil (no map at all) or a map, possibly empty.
GoMap(isNil, m) == [t |-> "map", nil |-> isNil, m |-> m]

NilMap == GoMap(TRUE, <<>>)

\* len() of a map; the length of a nil map is 0.
MapLen(x) == Cardinality(DOMAIN x.m)

MapsOver(Ks, Vs) == UNION { [S -> Vs] : S \in SUBSET Ks }

\* Every map[string]any over the keys Ks, and the nil map.
VarMaps(Ks) == {NilMap} \cup { GoMap(FALSE, f) : f \in MapsOver(Ks, ScalarValues) }

\* Keys used by the variables of a request.
Keys == {"foo", "num", "fail"}

\* The same with a key that differs from a field's name by case only.
KeysFold == Keys \cup {"FOO"}

BoundedSeq(S, n) == UNION { [1..k -> S] : k \in 0..n }

(***************************************************************************)
(* reflect.DeepEqual on the values above.  Values of distinct dynamic      *)
(* types are never equal; two maps are equal when both are nil or both are *)
(* not, they have the same length and equal values under the same keys.    *)
(***************************************************************************)
ScalarEqual(a, b) == a.t = b.t /\ a.v = b.v

DeepEqual(x, y) ==
    IF x.t # y.t THEN FALSE
    ELSE IF x.t = "map" THEN
        /\ x.nil = y.nil
        /\ MapLen(x) = MapLen(y)
        /\ \A k \in DOMAIN x.m : k \in DOMAIN y.m /\ ScalarEqual(x.m[k], y.m[k])
    ELSE IF x.t = "EncodedVariable" THEN
        x.Foo = y.Foo /\ x.Num = y.Num
    ELSE ScalarEqual(x, y)

(***************************************************************************)
(* encoding/json, as far as the repository uses it on variables.           *)
(***************************************************************************)
JsonVal(j, v) == [j |-> j, v |-> v]

\* json.Marshal of a scalar: an int and a whole float64 both print as an
\* integer literal.
MarshalValue(x) ==
    IF x.t = "string" THEN JsonVal("string", x.v)
    ELSE IF x.t \in {"int", "float64"} THEN JsonVal("number", x.v)
    ELSE IF x.t = "bool" THEN JsonVal("bool", x.v)
    ELSE JsonVal("null", "null")

\* json.Marshal writes the keys of a map in sorted (byte) order.
SortedKeys == <<"FOO", "fail", "foo", "num">>

IsKeyOf(x, k) == k \in DOMAIN x.m

MarshalMap(x) ==
    LET present(k) == IsKeyOf(x, k)
        ks == SelectSeq(SortedKeys, present)
    IN  [i \in 1..Len(ks) |-> [key |-> ks[i], val |-> MarshalValue(x.m[ks[i]])]]

\* The field of EncodedVariable a JSON key decodes into: the field's tag,
\* exactly or up to case; "" when the structure has no such field.
FieldOf(key) ==
    IF key \in {"foo", "FOO"} THEN "Foo"
    ELSE IF key = "num" THEN "Num"
    ELSE ""

\* The zero value of EncodedVariable.
ZeroEncoded == [t |-> "EncodedVariable", Foo |-> "", Num |-> "0"]

\* Decoding one member of the JSON object into the structure, with
\* DisallowUnknownFields: an unknown key or a value of the wrong JSON type is
\* an error, a null leaves the field as it is.
DecodeMember(acc, mem) ==
    LET f == FieldOf(mem.key) IN
    IF f = "" THEN [acc EXCEPT !.err = TRUE]
    ELSE IF mem.val.j = "null" THEN acc
    ELSE IF f = "Foo" THEN
        IF mem.val.j = "string" THEN [acc EXCEPT !.ret.Foo = mem.val.v]
        ELSE [acc EXCEPT !.err = TRUE]
    ELSE
        IF mem.val.j = "number" THEN [acc EXCEPT !.ret.Num = mem.val.v]
        ELSE [acc EXCEPT !.err = TRUE]

RECURSIVE DecodeMembers(_, _, _)
DecodeMembers(acc, mems, i) ==
    IF i > Len(mems) THEN acc
    ELSE DecodeMembers(DecodeMember(acc, mems[i]), mems, i + 1)

\* Most keys EncodedVariable.Variable takes.
MaxDecoderKeys == 2

\* The nil interface value.
GoNil == GoVal("nil", "nil")

\* EncodedVariable.Variable: the (value, ok) pair it returns.
Variable(req) ==
    IF MapLen(req) = 0 THEN [ret |-> GoNil, ok |-> FALSE]
    ELSE IF MapLen(req) > MaxDecoderKeys THEN [ret |-> GoNil, ok |-> FALSE]
    ELSE LET d == DecodeMembers([ret |-> ZeroEncoded, err |-> FALSE],
                                MarshalMap(req), 1)
         IN  [ret |-> d.ret, ok |-> ~d.err]

(***************************************************************************)
(* The partial implementations of MockedRequest.CompareVariables.          *)
(***************************************************************************)
NoVariable == [kind |-> "NoVariable"]

KeyOnlyVariables(kv) == [kind |-> "KeyOnlyVariables", kv |-> kv]

ExactVariables(ref) == [kind |-> "ExactVariables", Variables |-> ref]

EncodedVariable(foo, num) == [t |-> "EncodedVariable", Foo |-> foo, Num |-> num]

\* NoVariable.CompareVariables
NoVariableCompare(got) == MapLen(got) = 0

\* A KeyOnlyVariables that does not compare the number of keys.
KeyOnlyCompareNoLen(kv, got) ==
    LET want == { kv[i] : i \in 1..Len(kv) }
    IN  \A k \in DOMAIN got.m : k \in want

\* KeyOnlyVariables.CompareVariables
KeyOnlyCompare(kv, got) ==
    LET want == { kv[i] : i \in 1..Len(kv) }
    IN  IF Cardinality(want) # MapLen(got) THEN FALSE
        ELSE \A k \in DOMAIN got.m : k \in want

\* Whether a reference implements VariableDecoder.
IsDecoder(ref) == ref.t = "EncodedVariable"

\* An ExactVariables that compares whatever the decoder returned, accepted
\* or not.
ExactCompareNoOk(ref, got) ==
    IF IsDecoder(ref) THEN DeepEqual(ref, Variable(got).ret)
    ELSE DeepEqual(ref, got)

\* ExactVariables.CompareVariables
ExactCompare(ref, got) ==
    IF IsDecoder(ref)
    THEN LET d == Variable(got) IN
         IF ~d.ok THEN FALSE ELSE DeepEqual(ref, d.ret)
    ELSE DeepEqual(ref, got)

\* MockedRequest.CompareVariables, by the matcher the mock embeds.
CompareVariables(mk, got) ==
    IF mk.kind = "NoVariable" THEN NoVariableCompare(got)
    ELSE IF mk.kind = "KeyOnlyVariables" THEN KeyOnlyCompare(mk.kv, got)
    ELSE ExactCompare(mk.Variables, got)

(***************************************************************************)
(* Texts: strings.TrimSpace, strings.HasPrefix, strings.Contains.          *)
(***************************************************************************)
IsSpace(c) == c \in {" ", "\t", "\n", "\r"}

RECURSIVE TrimLeft(_)
TrimLeft(s) ==
    IF Len(s) > 0 /\ IsSpace(Head(s)) THEN TrimLeft(Tail(s)) ELSE s

RECURSIVE TrimRight(_)
TrimRight(s) ==
    IF Len(s) > 0 /\ IsSpace(s[Len(s)])
    THEN TrimRight(SubSeq(s, 1, Len(s) - 1)) ELSE s

TrimSpace(s) == TrimRight(TrimLeft(s))

HasPrefix(s, prefix) ==
    Len(s) >= Len(prefix) /\ SubSeq(s, 1, Len(prefix)) = prefix

Contains(s, substr) ==
    \E i \in 0..(Len(s) - Len(substr)) : SubSeq(s, i + 1, i + Len(substr)) = substr

\* The keyword a request must start with.
QueryKeyword == <<"q", "u", "e", "r", "y">>

(***************************************************************************)
(* The request body and its decoding into Request (json.Decoder.Decode).   *)
(***************************************************************************)
\* Request{Query, Variables}
Request(q, v) == [Query |-> q, Variables |-> v]

\* A JSON value decoded into `any`: a number becomes a float64.
UnmarshalValue(jv) ==
    IF jv.j = "string" THEN GoVal("string", jv.v)
    ELSE IF jv.j = "number" THEN GoVal("float64", jv.v)
    ELSE IF jv.j = "bool" THEN GoVal("bool", jv.v)
    ELSE GoNil

\* Decoding the body: a body that is no JSON, or whose "query" is no string
\* or whose "variables" is no object, is an error; an absent "query" is the
\* empty text, absent or null "variables" are the nil map.
DecodeBody(body) ==
    IF body.json = "invalid"
    THEN [err |-> "*json.SyntaxError", req |-> Request(<<>>, NilMap)]
    ELSE IF body.query.j \notin {"string", "absent", "null"}
         \/ body.variables.j \notin {"object", "absent", "null"}
    THEN [err |-> "*json.UnmarshalTypeError", req |-> Request(<<>>, NilMap)]
    ELSE [err |-> "",
          req |-> Request(
              IF body.query.j = "string" THEN body.query.text ELSE <<>>,
              IF body.variables.j = "object"
              THEN GoMap(FALSE, [k \in DOMAIN body.variables.m |->
                                    UnmarshalValue(body.variables.m[k])])
              ELSE NilMap)]

(***************************************************************************)
(* The envelope: Response, ResponseError and their JSON encoding.          *)
(***************************************************************************)
StatusOK == 200
StatusNotFound == 404
StatusInternalServerError == 500

\* errors.New("goraphql_mock_server: mocked request not found").Error()
NotFoundMessage == <<"goraphql_mock_server: mocked request not found">>

\* fmt.Errorf("goraphql_mock_server: decode request body: %e", err).Error():
\* %e is no verb of an error, so fmt prints the fields of the error value as
\* bad verbs in place of its text.
DecodeMessage(err) ==
    <<"goraphql_mock_server: decode request body: ", "&{%!e(", err, ")}">>

\* json.Encoder.Encode of a Response: "data" has no omitempty and is always
\* written, "errors" has it and is left out when the list is empty; the
\* "path" and "extensions" of an error are always written.
EncodeError(e) ==
    [message |-> JsonVal("string", e.Message),
     path |-> JsonVal("null", "null"),
     extensions |-> JsonVal("null", "null")]

EncodeErrors(res) == [i \in 1..Len(res.Errors) |-> EncodeError(res.Errors[i])]

Encode(res) ==
    LET fields == {"data"} \cup (IF Len(res.Errors) = 0 THEN {} ELSE {"errors"})
    IN  [k \in fields |->
            IF k = "data" THEN MarshalValue(res.Data)
            ELSE JsonVal("array", EncodeErrors(res))]

\* respond: the status and the encoded payload, as written to w.
respond(status, payload) == [status |-> status, body |-> Encode(payload)]

\* respondError
respondError(status, message) ==
    respond(status, [Data |-> GoNil,
                     Errors |-> << [Message |-> message, Extensions |-> GoNil] >>])

\* respondResponse
respondResponse(status, data) ==
    respond(status, [Data |-> data, Errors |-> <<>>])

(***************************************************************************)
(* server: RegisterQuery, handler, handleQuery.                            *)
(***************************************************************************)
\* A MockedRequest: a matcher and the payload its Response() returns.
MockedRequest(match, payload) == [match |-> match, payload |-> payload]

\* MockedRequest.Response (RawResponse.Response)
Response(mk) == mk.payload

\* s.queries[identifier]: the nil slice when the identifier is not a key.
Lookup(qs, identifier) ==
    IF identifier \in DOMAIN qs THEN qs[identifier] ELSE <<>>

\* A registration that puts the new mock in front.
RegisteredPrepend(qs, identifier, mk) ==
    LET tmp == <<mk>> \o Lookup(qs, identifier)
    IN  [x \in DOMAIN qs \cup {identifier} |-> IF x = identifier THEN tmp ELSE qs[x]]

\* server.RegisterQuery: the registry after the call.
Registered(qs, identifier, mk) ==
    LET tmp == Append(Lookup(qs, identifier), mk)
    IN  [x \in DOMAIN qs \cup {identifier} |-> IF x = identifier THEN tmp ELSE qs[x]]

\* What a run of the handler has done so far: the responses written to w,
\* the entries whose CompareVariables and whose Response were called, and
\* whether handleQuery returned true.
NoTrace == [writes |-> <<>>, consulted |-> <<>>, generated |-> <<>>, returned |-> FALSE]

\* server.handleQuery on the entry at <<identifier, index>>.
handleQuery(mk, req, at, acc) ==
    IF ~CompareVariables(mk.match, req.Variables)
    THEN [acc EXCEPT !.consulted = Append(@, at)]
    ELSE [acc EXCEPT !.consulted = Append(@, at),
                     !.generated = Append(@, at),
                     !.writes = Append(@, respondResponse(StatusOK, Response(mk))),
                     !.returned = TRUE]

\* An inner loop that goes on after handleQuery returned true.
RECURSIVE ScanRequestsNoReturn(_, _, _, _, _)
ScanRequestsNoReturn(mockedRequests, req, id, k, acc) ==
    IF k > Len(mockedRequests) THEN acc
    ELSE ScanRequestsNoReturn(mockedRequests, req, id, k + 1,
                              handleQuery(mockedRequests[k], req, <<id, k>>, acc))

\* The inner loop of the handler: the mocked requests of one identifier, in
\* order, until handleQuery returns true.
RECURSIVE ScanRequests(_, _, _, _, _)
ScanRequests(mockedRequests, req, id, k, acc) ==
    IF k > Len(mockedRequests) THEN acc
    ELSE LET a == handleQuery(mockedRequests[k], req, <<id, k>>, acc)
         IN  IF a.returned THEN a
             ELSE ScanRequests(mockedRequests, req, id, k + 1, a)

\* An outer loop that gives up after the first identifier the query contains.
RECURSIVE ScanQueriesFirstOnly(_, _, _, _, _)
ScanQueriesFirstOnly(qs, req, order, i, acc) ==
    IF i > Len(order) THEN acc
    ELSE IF Contains(req.Query, order[i])
    THEN ScanRequests(qs[order[i]], req, order[i], 1, acc)
    ELSE ScanQueriesFirstOnly(qs, req, order, i + 1, acc)

\* The outer loop of the handler, over the keys of s.queries in the order
\* this run of `range` yields them.
RECURSIVE ScanQueries(_, _, _, _, _)
ScanQueries(qs, req, order, i, acc) ==
    IF i > Len(order) THEN acc
    ELSE IF Contains(req.Query, order[i])
    THEN LET a == ScanRequests(qs[order[i]], req, order[i], 1, acc)
         IN  IF a.returned THEN a
             ELSE ScanQueries(qs, req, order, i + 1, a)
    ELSE ScanQueries(qs, req, order, i + 1, acc)

\* A dispatch without the check of the operation type.
DispatchAnyOperation(qs, req, order, acc) ==
    LET a == ScanQueries(qs, req, order, 1, acc)
    IN  IF a.returned THEN a
        ELSE [a EXCEPT !.writes =
                  Append(@, respondError(StatusNotFound, NotFoundMessage))]

\* The switch of the handler and what follows it.
Dispatch(qs, req, order, acc) ==
    LET a == IF HasPrefix(TrimSpace(req.Query), QueryKeyword)
             THEN ScanQueries(qs, req, order, 1, acc)
             ELSE acc
    IN  IF a.returned THEN a
        ELSE [a EXCEPT !.writes =
                  Append(@, respondError(StatusNotFound, NotFoundMessage))]

\* The answer to a body that could not be decoded.
DecodeFailure(err, acc) ==
    [acc EXCEPT !.writes =
        Append(@, respondError(StatusInternalServerError, DecodeMessage(err)))]

\* A handler that goes on after answering a body it could not decode.
handlerNoReturn(qs, body, order) ==
    LET d == DecodeBody(body)
    IN  Dispatch(qs, d.req, order,
                 IF d.err # "" THEN DecodeFailure(d.err, NoTrace) ELSE NoTrace)

\* server.handler on a body, with the order its `range` takes.
handler(qs, body, order) ==
    LET d == DecodeBody(body)
    IN  IF d.err # "" THEN DecodeFailure(d.err, NoTrace)
        ELSE Dispatch(qs, d.req, order, NoTrace)

(***************************************************************************)
(* The server: mocks are registered and requests are handled.              *)
(***************************************************************************)
\* The registry of a new server: make(map[string][]MockedRequest).
EmptyRegistry == <<>>

\* No request handled yet.
Idle == [handled |-> FALSE]

\* CompareVariables not called yet.
Pending == [done |-> FALSE, result |-> FALSE]

\* The goroutines of the HTTP server that run the handler at the same time.
Handlers == {"h1", "h2"}

\* A goroutine that has no request.
IdleHandler == [pc |-> "idle"]

NoneRunning == [h \in Handlers |-> IdleHandler]

IdF == <<"F">>
IdB == <<"B">>

\* Identifiers given to RegisterQuery.
Identifiers == {IdF, IdB}

\* Mocked requests given to RegisterQuery: one per matcher, each with a
\* payload of its own (nil for the first).
Mocks ==
    { MockedRequest(NoVariable, GoNil),
      MockedRequest(KeyOnlyVariables(<<"foo">>), GoVal("string", "p1")),
      MockedRequest(ExactVariables(GoMap(FALSE, [k \in {"foo"} |-> GoVal("string", "str")])),
                    GoVal("string", "p2")),
      MockedRequest(ExactVariables(EncodedVariable("str", "0")), GoVal("string", "p3")) }

\* Query texts: "query F", "\tquery F B", "mutation F B", "F query", "query".
QueryTexts ==
    { QueryKeyword \o <<" ", "F">>,
      <<"\t">> \o QueryKeyword \o <<" ", "F", " ", "B">>,
      <<"m", "u", "t", "a", "t", "i", "o", "n", " ", "F", " ", "B">>,
      <<"F", " ">> \o QueryKeyword,
      QueryKeyword }

\* The "query" member of a body: a string, absent, or a number.
QueryMembers ==
    { [j |-> "string", text |-> t] : t \in QueryTexts }
    \cup { [j |-> "absent", text |-> <<>>], [j |-> "number", text |-> <<>>] }

\* The "variables" member of a body: an object, null, absent, or a string.
VariablesMembers ==
    { [j |-> "object", m |-> f] :
        f \in { <<>>,
                [k \in {"foo"} |-> JsonVal("string", "str")],
                [k \in {"foo", "num"} |->
                    IF k = "foo" THEN JsonVal("string", "str") ELSE JsonVal("number", "1")] } }
    \cup { [j |-> x, m |-> <<>>] : x \in {"null", "absent", "string"} }

\* Request bodies: one that is no JSON, and JSON objects.
Bodies ==
    { [json |-> "invalid", query |-> [j |-> "absent", text |-> <<>>],
       variables |-> [j |-> "absent", m |-> <<>>]] }
    \cup { [json |-> "object", query |-> q, variables |-> v] :
             q \in QueryMembers, v \in VariablesMembers }

\* The orders in which `range` may yield the keys of a map.
RangeOrders(qs) ==
    { o \in [1..Cardinality(DOMAIN qs) -> DOMAIN qs] :
        \A i, j \in DOMAIN o : i # j => o[i] # o[j] }

Init ==
    /\ queries = EmptyRegistry
    /\ calls = <<>>
    /\ last = Idle
    /\ mock = NoVariable
    /\ reqVar = NilMap
    /\ cmp = Pending
    /\ running = NoneRunning

\* s.RegisterQuery(identifier, mk), called while no request is being
\* answered: registration is not synchronised with the handler.
RegisterQuery(identifier, mk) ==
    /\ ~last.handled
    /\ Len(calls) < MaxRegs
    /\ queries' = Registered(queries, identifier, mk)
    /\ calls' = Append(calls, [identifier |-> identifier, mock |-> mk])
    /\ UNCHANGED <<last, mock, reqVar, cmp, running>>

\* One request, handled from its body to its response.
Handle(body, order) ==
    LET run == handler(queries, body, order)
    IN  /\ ~last.handled
        /\ last' = [handled |-> TRUE, body |-> body,
                    writes |-> run.writes, consulted |-> run.consulted,
                    generated |-> run.generated]
        /\ UNCHANGED <<queries, calls, mock, reqVar, cmp, running>>

\* The response has been sent; the server waits for the next request.
Finish ==
    /\ last.handled
    /\ last' = Idle
    /\ UNCHANGED <<queries, calls, mock, reqVar, cmp, running>>

Next ==
    \/ \E identifier \in Identifiers, mk \in Mocks : RegisterQuery(identifier, mk)
    \/ \E body \in Bodies, order \in RangeOrders(queries) : Handle(body, order)
    \/ Finish

Spec == Init /\ [][Next]_vars

(***************************************************************************)
(* The matchers on their own: a mock and an incoming variable map are      *)
(* drawn, then CompareVariables is applied to them.                        *)
(***************************************************************************)
\* References given to ExactVariables as a structure that decodes.
EncodedRefs == { EncodedVariable(f, n) : f \in {"", "str"}, n \in {"0", "1"} }

PlainMatchers ==
    {NoVariable}
    \cup { KeyOnlyVariables(kv) : kv \in BoundedSeq(Keys, MaxKeyList) }
    \cup { ExactVariables(r) : r \in VarMaps(Keys) }

DecoderMatchers == { ExactVariables(r) : r \in EncodedRefs }

MatcherInit ==
    /\ queries = EmptyRegistry
    /\ calls = <<>>
    /\ last = Idle
    /\ cmp = Pending
    /\ running = NoneRunning
    /\ \/ mock \in PlainMatchers /\ reqVar \in VarMaps(Keys)
       \/ mock \in DecoderMatchers /\ reqVar \in VarMaps(KeysFold)

\* mock.CompareVariables(reqVar)
Compare ==
    /\ ~cmp.done
    /\ cmp' = [done |-> TRUE, result |-> CompareVariables(mock, reqVar)]
    /\ UNCHANGED <<queries, calls, last, mock, reqVar, running>>

MatcherNext == Compare

MatcherSpec == MatcherInit /\ [][MatcherNext]_vars

(***************************************************************************)
(* Concurrent handlers.  The mocks are registered first; then the HTTP     *)
(* server runs the handler on one goroutine per request, and the runs      *)
(* interleave at each evaluation of an entry.  The registry is shared, the *)
(* decoded request is each run's own.                                      *)
(***************************************************************************)
\* Most RegisterQuery calls made before the server is used concurrently.
MaxServingRegs == 2

\* Bodies sent concurrently: one that is no JSON, and queries and mutations
\* with and without variables.
ConcurrentBodies ==
    { b \in Bodies :
        \/ b.json = "invalid"
        \/ /\ b.query.j = "string"
           /\ Contains(b.query.text, IdB)
           /\ b.variables.j \in {"object", "absent"}
           /\ "num" \notin DOMAIN b.variables.m }

\* A matcher that removes from the incoming map the keys it has seen.
VariablesAfterDelete(match, got) ==
    IF match.kind = "KeyOnlyVariables"
    THEN GoMap(got.nil, [k \in DOMAIN got.m \ { match.kv[n] : n \in 1..Len(match.kv) }
                            |-> got.m[k]])
    ELSE got

\* The incoming variable map after CompareVariables: no matcher writes to it.
VariablesAfter(match, got) == got

\* The not-found answer after the switch of the handler.
NotFoundWritten(acc) ==
    [acc EXCEPT !.writes = Append(@, respondError(StatusNotFound, NotFoundMessage))]

\* A run of the handler up to its loops: the body is decoded and the
\* operation type checked; `order` is the order its `range` will take.
Accepted(body, order) ==
    LET d == DecodeBody(body)
        r == [body |-> body, order |-> order, query |-> d.req.Query,
              vars |-> d.req.Variables, i |-> 1, k |-> 1, overlap |-> FALSE]
    IN  IF d.err # ""
        THEN r @@ [pc |-> "done", trace |-> DecodeFailure(d.err, NoTrace)]
        ELSE IF ~HasPrefix(TrimSpace(d.req.Query), QueryKeyword)
        THEN r @@ [pc |-> "done", trace |-> NotFoundWritten(NoTrace)]
        ELSE r @@ [pc |-> "scan", trace |-> NoTrace]

\* One step of the loops of a run: the end of the outer loop, the move to
\* the next identifier, or handleQuery on the next mocked request.
Stepped(qs, r) ==
    IF r.i > Len(r.order)
    THEN [r EXCEPT !.pc = "done", !.trace = NotFoundWritten(@)]
    ELSE IF ~Contains(r.query, r.order[r.i]) \/ r.k > Len(qs[r.order[r.i]])
    THEN [r EXCEPT !.i = @ + 1, !.k = 1]
    ELSE LET mk == qs[r.order[r.i]][r.k]
             a == handleQuery(mk, Request(r.query, r.vars), <<r.order[r.i], r.k>>, r.trace)
         IN  [r EXCEPT !.trace = a,
                       !.vars = VariablesAfter(mk.match, @),
                       !.k = @ + 1,
                       !.pc = IF a.returned THEN "done" ELSE "scan"]

ConcurrentInit ==
    /\ queries = EmptyRegistry
    /\ calls = <<>>
    /\ last = Idle
    /\ mock = NoVariable
    /\ reqVar = NilMap
    /\ cmp = Pending
    /\ running = NoneRunning

\* s.RegisterQuery(identifier, mk), before any request is sent.
RegisterBeforeServing(identifier, mk) ==
    /\ \A h \in Handlers : running[h].pc = "idle"
    /\ Len(calls) < MaxServingRegs
    /\ queries' = Registered(queries, identifier, mk)
    /\ calls' = Append(calls, [identifier |-> identifier, mock |-> mk])
    /\ UNCHANGED <<last, mock, reqVar, cmp, running>>

\* A goroutine starts the handler on a request.
Accept(h, body, order) ==
    /\ running[h].pc = "idle"
    /\ running' = [running EXCEPT ![h] = Accepted(body, order)]
    /\ UNCHANGED <<queries, calls, last, mock, reqVar, cmp>>

\* A goroutine goes one step further in the loops of the handler.
Step(h) ==
    /\ running[h].pc = "scan"
    /\ running' = [running EXCEPT ![h] =
           [Stepped(queries, running[h]) EXCEPT !.overlap =
               @ \/ \E g \in Handlers \ {h} : running[g].pc = "scan"]]
    /\ UNCHANGED <<queries, calls, last, mock, reqVar, cmp>>

ConcurrentNext ==
    \/ \E identifier \in Identifiers, mk \in Mocks : RegisterBeforeServing(identifier, mk)
    \/ \E h \in Handlers, body \in ConcurrentBodies, order \in RangeOrders(queries) :
           Accept(h, body, order)
    \/ \E h \in Handlers : Step(h)

ConcurrentSpec == ConcurrentInit /\ [][ConcurrentNext]_vars

(***************************************************************************)
(* What the claims are stated with.                                        *)
(***************************************************************************)
Range(f) == { f[i] : i \in DOMAIN f }

\* The request of the run recorded in `last`, and its decoding error.
LastRequest == DecodeBody(last.body).req
LastError == DecodeBody(last.body).err

\* The run recorded in `last` decoded its body.
Decoded == last.handled /\ LastError = ""

\* The operation-type gate.
Eligible(req) == HasPrefix(TrimSpace(req.Query), QueryKeyword)

\* The entries of the registry, each named by its identifier and position.
Entries ==
    UNION { { <<id, k>> : k \in 1..Len(queries[id]) } : id \in DOMAIN queries }

EntryAt(e) == queries[e[1]][e[2]]

Accepts(mk, req) == CompareVariables(mk.match, req.Variables)

\* The entries whose identifier the query contains.
ContainedEntries(req) == { e \in Entries : Contains(req.Query, e[1]) }

\* Those of them whose matcher accepts the variables.
MatchingEntries(req) == { e \in ContainedEntries(req) : Accepts(EntryAt(e), req) }

\* The position, in the sequence of its identifier, of the entry registered
\* by the i-th call.
Rank(i) ==
    Cardinality({ j \in 1..i : calls[j].identifier = calls[i].identifier })

\* The envelopes.
SuccessOf(mk) == respondResponse(StatusOK, Response(mk))
NotFound == respondError(StatusNotFound, NotFoundMessage)

\* Calls i < j under one identifier that the query of an eligible request
\* contains, both accepting its variables, no entry of another identifier
\* matching.
BothAccept(i, j) ==
    /\ i < j
    /\ calls[i].identifier = calls[j].identifier
    /\ Decoded
    /\ Eligible(LastRequest)
    /\ Contains(LastRequest.Query, calls[i].identifier)
    /\ Accepts(calls[i].mock, LastRequest)
    /\ Accepts(calls[j].mock, LastRequest)
    /\ \A e \in MatchingEntries(LastRequest) : e[1] = calls[i].identifier

(***************************************************************************)
(* C1 (as stated): when A was registered before B under one identifier, a  *)
(* request that both accept (and no entry of another identifier matches)   *)
(* is answered with A's response.                                          *)
(***************************************************************************)
C1_AnsweredWithEarlierOfTwo ==
    \A i, j \in 1..Len(calls) :
        BothAccept(i, j) => last.writes = <<SuccessOf(calls[i].mock)>>

(***************************************************************************)
(* C1 (amended): such a request is answered with the response of the       *)
(* earliest entry of that identifier that accepts the variables; that      *)
(* entry is A or one registered before A, never B, and it is A whenever no *)
(* entry registered before A under the identifier accepts.                 *)
(***************************************************************************)
C1_AnsweredWithEarliestAccepting ==
    \A i, j \in 1..Len(calls) :
        BothAccept(i, j) =>
            LET id == calls[i].identifier
                first == CHOOSE k \in 1..Len(queries[id]) :
                            /\ Accepts(queries[id][k], LastRequest)
                            /\ \A n \in 1..(k - 1) : ~Accepts(queries[id][n], LastRequest)
            IN  /\ queries[id][Rank(i)] = calls[i].mock
                /\ queries[id][Rank(j)] = calls[j].mock
                /\ last.generated = << <<id, first>> >>
                /\ first <= Rank(i)
                /\ first < Rank(j)
                /\ last.writes = <<SuccessOf(queries[id][first])>>
                /\ (\A n \in 1..(i - 1) :
                        calls[n].identifier = id => ~Accepts(calls[n].mock, LastRequest))
                   => last.writes = <<SuccessOf(calls[i].mock)>>

\* A request that A and B both accept is answered; A, not registered first
\* under the identifier, is the first to accept, and B answers otherwise.
C1_Witness ==
    \E i, j \in 1..Len(calls) :
        /\ BothAccept(i, j)
        /\ Rank(i) > 1
        /\ \A n \in 1..(i - 1) : ~Accepts(calls[n].mock, LastRequest)
        /\ Response(calls[i].mock) # Response(calls[j].mock)
        /\ last.writes = <<SuccessOf(calls[i].mock)>>

(***************************************************************************)
(* C2: a decodable request whose trimmed query starts with `query` is      *)
(* answered 200 with a success envelope iff some entry under an identifier *)
(* the query contains accepts the variables, and else 404 with the fixed   *)
(* not-found message.                                                      *)
(***************************************************************************)
C2_FoundIffSomeEntryMatches ==
    (Decoded /\ Eligible(LastRequest)) =>
        /\ Len(last.writes) = 1
        /\ IF MatchingEntries(LastRequest) # {}
           THEN /\ last.writes[1].status = StatusOK
                /\ \E e \in MatchingEntries(LastRequest) :
                       last.writes[1] = SuccessOf(EntryAt(e))
                /\ "errors" \notin DOMAIN last.writes[1].body
           ELSE /\ last.writes[1].status = StatusNotFound
                /\ Len(last.writes[1].body["errors"].v) = 1
                /\ last.writes[1].body["errors"].v[1].message.v = NotFoundMessage

\* A request answered 200 by an entry of one identifier after an entry of
\* another contained identifier had rejected its variables.
C2_Witness ==
    /\ Decoded
    /\ Eligible(LastRequest)
    /\ Len(last.writes) = 1
    /\ last.writes[1].status = StatusOK
    /\ Len(last.consulted) > 1
    /\ last.consulted[1][1] # last.generated[1][1]

(***************************************************************************)
(* C3: a decodable request whose trimmed query does not start with `query` *)
(* is answered with the 404 not-found envelope and no entry's              *)
(* CompareVariables or Response is called.                                 *)
(***************************************************************************)
C3_OtherOperationsNotFound ==
    (Decoded /\ ~Eligible(LastRequest)) =>
        /\ last.writes = <<NotFound>>
        /\ last.writes[1].status = StatusNotFound
        /\ last.consulted = <<>>
        /\ last.generated = <<>>

\* Such a request, with an identifier in its query and an accepting entry.
C3_Witness ==
    /\ Decoded
    /\ ~Eligible(LastRequest)
    /\ MatchingEntries(LastRequest) # {}
    /\ last.writes = <<NotFound>>

C5_KeyOnlyIffSameKeySet ==
    (cmp.done /\ mock.kind = "KeyOnlyVariables") =>
        /\ cmp.result = (DOMAIN reqVar.m = Range(mock.kv))
        /\ \A other \in VarMaps(Keys) :
               DOMAIN other.m = DOMAIN reqVar.m
               => CompareVariables(mock, other) = cmp.result

\* A key list with a duplicate, accepted on a map of two keys.
C5_Witness ==
    /\ cmp.done
    /\ mock.kind = "KeyOnlyVariables"
    /\ Len(mock.kv) > Cardinality(Range(mock.kv))
    /\ MapLen(reqVar) = 2
    /\ cmp.result

(***************************************************************************)
(* C6: for a reference map R that is no VariableDecoder,                   *)
(* ExactVariables{R}.CompareVariables(M) is true iff R and M have the same *)
(* keys and, under each key, values of the same type and equal value.      *)
(***************************************************************************)
C6_ExactIffSameKeysAndValues ==
    (cmp.done /\ mock.kind = "ExactVariables" /\ ~IsDecoder(mock.Variables)) =>
        cmp.result =
            /\ DOMAIN mock.Variables.m = DOMAIN reqVar.m
            /\ \A k \in DOMAIN reqVar.m :
                   /\ mock.Variables.m[k].t = reqVar.m[k].t
                   /\ mock.Variables.m[k].v = reqVar.m[k].v

\* The value a map gives to a field of EncodedVariable, or the zero value.
FieldFrom(m, field) ==
    IF field = "Foo"
    THEN IF "foo" \in DOMAIN m THEN m["foo"].v
         ELSE IF "FOO" \in DOMAIN m THEN m["FOO"].v ELSE ""
    ELSE IF "num" \in DOMAIN m THEN m["num"].v ELSE "0"

(***************************************************************************)
(* C7: with a reference that is a VariableDecoder, CompareVariables is     *)
(* false on every map the decoder rejects (an empty map, more than 2 keys, *)
(* a key the structure does not know: all rejected); on a map it accepts,  *)
(* it is true iff each field of the reference equals the field decoded     *)
(* from the map, or the zero value when the map has no key for it.         *)
(***************************************************************************)
C7_DecoderRejectsOrCompares ==
    (cmp.done /\ mock.kind = "ExactVariables" /\ IsDecoder(mock.Variables)) =>
        LET d == Variable(reqVar) IN
        /\ ~d.ok => ~cmp.result
        /\ ( \/ MapLen(reqVar) = 0
             \/ MapLen(reqVar) > 2
             \/ \E k \in DOMAIN reqVar.m : k \notin {"foo", "FOO", "num"} )
           => (~d.ok /\ ~cmp.result)
        /\ d.ok => cmp.result = ( /\ mock.Variables.Foo = FieldFrom(reqVar.m, "Foo")
                                  /\ mock.Variables.Num = FieldFrom(reqVar.m, "Num") )

\* A map rejected for an unknown key while every field equals the reference.
C7_Witness ==
    /\ cmp.done
    /\ mock.kind = "ExactVariables"
    /\ IsDecoder(mock.Variables)
    /\ DOMAIN reqVar.m = {"foo", "fail"}
    /\ reqVar.m["foo"] = GoVal("string", mock.Variables.Foo)
    /\ mock.Variables.Num = "0"
    /\ ~cmp.result

(***************************************************************************)
(* C8: a body that fails to decode is answered once, with status 500 and   *)
(* an error envelope whose message names the decoding of the body and is   *)
(* not the not-found message; no entry is consulted and the registry is    *)
(* left as it was.                                                         *)
(***************************************************************************)
C8_DecodeErrorAnswered ==
    [][ (~last.handled /\ last'.handled /\ DecodeBody(last'.body).err # "") =>
            /\ queries' = queries
            /\ Len(last'.writes) = 1
            /\ last'.writes[1].status = StatusInternalServerError
            /\ DOMAIN last'.writes[1].body["errors"].v = {1}
            /\ LET message == last'.writes[1].body["errors"].v[1].message.v
               IN  /\ message[1] = "goraphql_mock_server: decode request body: "
                   /\ message # NotFoundMessage
            /\ last'.consulted = <<>>
            /\ last'.generated = <<>>
            /\ calls' = calls ]_vars

\* A malformed body answered by a server that has an entry registered.
C8_Witness ==
    /\ last.handled
    /\ LastError # ""
    /\ Entries # {}
    /\ last.writes[1].status = StatusInternalServerError

(***************************************************************************)
(* C9: every envelope written carries exactly one of the two fields: a     *)
(* success envelope has `data` and no `errors`, an error envelope has a    *)
(* one-element `errors` and no `data`.                                     *)
(***************************************************************************)
C9_ExactlyOneOfDataAndErrors ==
    last.handled =>
        \A n \in 1..Len(last.writes) :
            LET w == last.writes[n] IN
            IF w.status = StatusOK
            THEN DOMAIN w.body = {"data"}
            ELSE /\ DOMAIN w.body = {"errors"}
                 /\ Len(w.body["errors"].v) = 1

RegisteredUnder(id) ==
    LET under(c) == c.identifier = id
        sel == SelectSeq(calls, under)
    IN  [n \in 1..Len(sel) |-> sel[n].mock]

C11_RegistryIsCallsInOrder ==
    /\ DOMAIN queries = { calls[n].identifier : n \in 1..Len(calls) }
    /\ \A id \in DOMAIN queries :
           /\ Len(queries[id]) >= 1
           /\ queries[id] = RegisteredUnder(id)

\* Two distinct mocks registered under one identifier with a registration
\* under another identifier between them, and a request handled since.
C11_Witness ==
    /\ Len(calls) = 3
    /\ calls[1].identifier = calls[3].identifier
    /\ calls[2].identifier # calls[1].identifier
    /\ calls[1].mock # calls[3].mock
    /\ last.handled
    /\ queries[calls[1].identifier] = <<calls[1].mock, calls[3].mock>>

(***************************************************************************)
(* C12: handling a request changes neither the registry nor the incoming   *)
(* variable map, whatever the outcome; so, once registration has finished, *)
(* in any interleaving of concurrent handlers each request gets the        *)
(* envelope it gets when handled alone.                                    *)
(***************************************************************************)
C12_HandlersDoNotInterfere ==
    [][ \A h \in Handlers :
          running'[h] # running[h] =>
            /\ queries' = queries
            /\ calls' = calls
            /\ running'[h].vars = DecodeBody(running'[h].body).req.Variables
            /\ running'[h].pc = "done" =>
                  LET alone == handler(queries', running'[h].body, running'[h].order)
                  IN  /\ running'[h].trace.writes = alone.writes
                      /\ running'[h].trace.consulted = alone.consulted
                      /\ running'[h].trace.generated = alone.generated ]_vars

\* Two requests, each handled while the other was in the loops: the steps
\* of one came between the steps of the other, the first is answered by the
\* second entry it evaluated and the two get different envelopes.
C12_Witness ==
    /\ \A h \in Handlers : running[h].pc = "done" /\ running[h].overlap
    /\ running["h1"].trace.writes[1].status = StatusOK
    /\ running["h2"].trace.writes # running["h1"].trace.writes
    /\ Len(running["h1"].trace.consulted) > 1
    /\ MapLen(running["h1"].vars) > 0

=============================================================================
